---- MODULE Spec2Model ----
(***************************************************************************)
(* A model of src/main.py: the Flask to-do application over the SQLite     *)
(* store 'to-dos.db'.  The state is the four tables, the Flask-Login       *)
(* session of every browser, the clock, the request each browser has in    *)
(* flight and the response of the last request served.                     *)
(*                                                                         *)
(* Spec     serves the requests of one browser, one at a time (one action  *)
(*          per view function).                                            *)
(* SpecFull adds a second browser, the login views and the history of the  *)
(*          to-do ids taken out of to_dos.                                 *)
(* SpecConc serves the requests of two browsers concurrently: a view is    *)
(*          split where it has read the store and at each commit, and the  *)
(*          steps of different requests interleave.                        *)
(***************************************************************************)
EXTENDS Integers, Sequences, FiniteSets, TLC

\* ------------------------------------------------------------ bounds
\* At most MaxRows rows over to_dos and got_dones together, ids in 1..MaxRows.
MaxRows == 2

Clients == {"c1", "c2"}
CategoryNames == {"Work", "Office"}
ToDoNames == {"a", "b"}
Emails == {"u@x"}
Passwords == {"pw", "bad"}
\* The clock runs over these days.
Days == {1, 2}
Ids == 1..MaxRows
\* Category ids: the unique names leave room for one row per name.
CategoryIds == 1..Cardinality(CategoryNames)

\* A form field left empty, a NULL column, an anonymous session.
NULL == 0
Empty == ""

VARIABLES
    users, categories, to_dos, got_dones, \* the tables of to-dos.db
    session,    \* per browser: the id of the logged-in user, NULL when anonymous
    today,      \* dt.datetime.now().date()
    req,        \* per browser: the request in flight (SpecConc), or Idle
    response,   \* the view function that answered last, and how
    audit,      \* history switch: TRUE when removed is kept
    removed     \* history: ids of the to-dos deleted or marked done so far

tables == <<categories, to_dos, got_dones>>
vars == <<users, categories, to_dos, got_dones, session, today, req, response, audit, removed>>

\* ------------------------------------------------------------ store helpers
Max(S) == CHOOSE m \in S : \A x \in S : x <= m

\* SQLite's rowid for "id INTEGER PRIMARY KEY" (no AUTOINCREMENT): one more than
\* the largest id in the table now, 1 for an empty table.
NextId(table) == IF DOMAIN table = {} THEN 1 ELSE Max(DOMAIN table) + 1

Insert(table, row) == table @@ (NextId(table) :> row)

Delete(table, id) == [i \in DOMAIN table \ {id} |-> table[i]]

\* Categories.query.filter_by(name=...).first(): the row's id, NULL for None.
CategoryByName(cats, name) ==
    IF \E i \in DOMAIN cats : cats[i].name = name
    THEN CHOOSE i \in DOMAIN cats : cats[i].name = name
    ELSE NULL

\* The column declared without unique=True.
UniqueNames_Off(cats) == TRUE

\* The unique constraint of categories.name: a commit that would leave two rows
\* with one name raises IntegrityError.
UniqueNames(cats) == \A i, j \in DOMAIN cats : cats[i].name = cats[j].name => i = j

\* str(category): Categories.__repr__ returns the name; str(None) is "None".
StrCategory(cats, parent_id) == IF parent_id = NULL THEN "None" ELSE cats[parent_id].name

\* ------------------------------------------------------------ forms
DataRequired(data) == data # Empty

\* DataRequired on a DateField: a date was entered (and parsed).
DateRequired(data) == data # NULL

\* The comparison turned around: today's date is refused, the past accepted.
date_check_Reversed(data, now) == ~(data >= now)

\* date_check passes unless the date is before today's date.
date_check(data, now) == ~(data < now)

\* SelectField(choices=categories): the submitted value is one of the choices.
ValidChoice(cats, data) == \E i \in DOMAIN cats : cats[i].name = data

Resp(handler, status) == [handler |-> handler, status |-> status]

Idle == [op |-> "idle"]

\* A browser waits for the answer to the request it sent.
InFlight(c) == req[c].op \notin {"idle", "done"}

\* The browser's request is answered in the step it was sent.
Answered(c) == [req EXCEPT ![c] = Idle]

Removed(ids) == IF audit THEN removed \cup ids ELSE removed

\* ------------------------------------------------------------ initial state
Init ==
    /\ users = <<>>
    /\ categories = <<>>
    /\ to_dos = <<>>
    /\ got_dones = <<>>
    /\ session = [c \in Clients |-> NULL]
    /\ today = 1
    /\ req = [c \in Clients |-> Idle]
    /\ response = Resp("none", "none")
    /\ audit = FALSE
    /\ removed = {}

InitAudit ==
    /\ users = <<>>
    /\ categories = <<>>
    /\ to_dos = <<>>
    /\ got_dones = <<>>
    /\ session = [c \in Clients |-> NULL]
    /\ today = 1
    /\ req = [c \in Clients |-> Idle]
    /\ response = Resp("none", "none")
    /\ audit = TRUE
    /\ removed = {}

\* ------------------------------------------------------------ authentication
generate_password_hash(password) == <<"pbkdf2:sha256", password>>

check_password_hash(pwhash, password) == pwhash = generate_password_hash(password)

UserByEmail(email) ==
    IF \E i \in DOMAIN users : users[i].email = email
    THEN CHOOSE i \in DOMAIN users : users[i].email = email
    ELSE NULL

is_authenticated(c) == session[c] # NULL

register(c, email, password, name) ==
    /\ ~InFlight(c)
    /\ req' = Answered(c)
    /\ IF ~(DataRequired(email) /\ DataRequired(password) /\ DataRequired(name))
       THEN /\ response' = Resp("register", "render")
            /\ UNCHANGED <<users, session>>
       ELSE IF UserByEmail(email) # NULL
       THEN /\ response' = Resp("register", "redirect_login")
            /\ UNCHANGED <<users, session>>
       ELSE /\ users' = Insert(users, [email |-> email, name |-> name,
                                        password |-> generate_password_hash(password)])
            /\ session' = [session EXCEPT ![c] = NextId(users)]
            /\ response' = Resp("register", "redirect")
    /\ UNCHANGED <<categories, to_dos, got_dones, today, removed, audit>>

login(c, email, password) ==
    /\ ~InFlight(c)
    /\ req' = Answered(c)
    /\ IF ~(DataRequired(email) /\ DataRequired(password))
       THEN /\ response' = Resp("login", "render")
            /\ UNCHANGED session
       ELSE IF UserByEmail(email) = NULL
       THEN /\ response' = Resp("login", "redirect_login")
            /\ UNCHANGED session
       ELSE IF ~check_password_hash(users[UserByEmail(email)].password, password)
       THEN /\ response' = Resp("login", "redirect_login")
            /\ UNCHANGED session
       ELSE /\ session' = [session EXCEPT ![c] = UserByEmail(email)]
            /\ response' = Resp("login", "redirect")
    /\ UNCHANGED <<users, categories, to_dos, got_dones, today, removed, audit>>

logout(c) ==
    /\ ~InFlight(c)
    /\ req' = Answered(c)
    /\ session' = [session EXCEPT ![c] = NULL]
    /\ response' = Resp("logout", "redirect")
    /\ UNCHANGED <<users, categories, to_dos, got_dones, today, removed, audit>>

dashboard(c) ==
    /\ ~InFlight(c)
    /\ req' = Answered(c)
    /\ response' = IF ~is_authenticated(c)
                   THEN Resp("dashboard", "redirect_login")
                   ELSE Resp("dashboard", "render")
    /\ UNCHANGED <<users, categories, to_dos, got_dones, session, today, removed, audit>>

\* ------------------------------------------------------------ categories
\* The commit with no unique constraint behind it.
CommitNewCategory_NoConstraint(cats, name) == Insert(cats, [name |-> name])

\* db.session.add(new_category); db.session.commit(): the store after the commit,
\* unchanged when the unique constraint refuses the row.
CommitNewCategory(cats, name) ==
    IF UniqueNames(Insert(cats, [name |-> name]))
    THEN Insert(cats, [name |-> name])
    ELSE cats

add_new_category(c, name) ==
    /\ ~InFlight(c)
    /\ req' = Answered(c)
    /\ IF ~DataRequired(name)
       THEN /\ response' = Resp("add_new_category", "render")
            /\ UNCHANGED categories
       ELSE /\ categories' = CommitNewCategory(categories, name)
            /\ response' = IF categories' = categories
                           THEN Resp("add_new_category", "flash_exists")
                           ELSE Resp("add_new_category", "redirect")
    /\ UNCHANGED <<users, to_dos, got_dones, session, today, removed, audit>>

\* The rename carried into the archive, as if got_dones referred to the category.
update_category_Live(c, category_id, name) ==
    /\ ~InFlight(c)
    /\ req' = Answered(c)
    /\ category_id \in DOMAIN categories
    /\ DataRequired(name)
    /\ UniqueNames([categories EXCEPT ![category_id].name = name])
    /\ categories' = [categories EXCEPT ![category_id].name = name]
    /\ got_dones' = [j \in DOMAIN got_dones |->
                       IF got_dones[j].category = categories[category_id].name
                       THEN [got_dones[j] EXCEPT !.category = name]
                       ELSE got_dones[j]]
    /\ response' = Resp("update_category", "redirect")
    /\ UNCHANGED <<users, to_dos, session, today, removed, audit>>

update_category(c, category_id, name) ==
    /\ ~InFlight(c)
    /\ req' = Answered(c)
    /\ IF ~DataRequired(name)
       THEN /\ response' = Resp("update_category", "render")
            /\ UNCHANGED categories
       ELSE IF category_id \notin DOMAIN categories
       THEN \* category_update is None: None.name = ... raises AttributeError
            /\ response' = Resp("update_category", "error")
            /\ UNCHANGED categories
       ELSE IF ~UniqueNames([categories EXCEPT ![category_id].name = name])
       THEN \* IntegrityError, not caught here: the transaction is rolled back
            /\ response' = Resp("update_category", "error")
            /\ UNCHANGED categories
       ELSE /\ categories' = [categories EXCEPT ![category_id].name = name]
            /\ response' = Resp("update_category", "redirect")
    /\ UNCHANGED <<users, to_dos, got_dones, session, today, removed, audit>>

\* ------------------------------------------------------------ to-dos
\* ToDoForm / UpdateToDoForm .validate_on_submit()
ValidToDoForm(cats, name, category, due_date, now) ==
    /\ DataRequired(name)
    /\ DataRequired(category) /\ ValidChoice(cats, category)
    /\ DateRequired(due_date) /\ date_check(due_date, now)

\* What the re-rendered form shows: the message of date_check when that is the
\* validator that failed.
FormErrors(due_date, now) ==
    IF DateRequired(due_date) /\ ~date_check(due_date, now) THEN "past_due_date" ELSE "render"

ToDoRow(cats, name, category, due_date) ==
    [name |-> name, parent_id |-> CategoryByName(cats, category), due_date |-> due_date]

add_new_to_do(c, name, category, due_date) ==
    /\ ~InFlight(c)
    /\ req' = Answered(c)
    /\ IF ~ValidToDoForm(categories, name, category, due_date, today)
       THEN /\ response' = Resp("add_new_to_do", FormErrors(due_date, today))
            /\ UNCHANGED to_dos
       ELSE /\ NextId(to_dos) <= MaxRows
            /\ Cardinality(DOMAIN to_dos) + Cardinality(DOMAIN got_dones) < MaxRows
            /\ to_dos' = Insert(to_dos, ToDoRow(categories, name, category, due_date))
            /\ response' = Resp("add_new_to_do", "redirect")
    /\ UNCHANGED <<users, categories, got_dones, session, today, removed, audit>>

\* Lines 278-281: the three assignments and their one commit.
CommitUpdate(todos, cats, to_do_id, name, category, due_date) ==
    [todos EXCEPT ![to_do_id] = ToDoRow(cats, name, category, due_date)]

update_to_do(c, to_do_id, name, category, due_date) ==
    /\ ~InFlight(c)
    /\ req' = Answered(c)
    /\ IF to_do_id \notin DOMAIN to_dos
       THEN \* to_do_update is None: default=to_do_update.name raises AttributeError
            /\ response' = Resp("update_to_do", "error")
            /\ UNCHANGED to_dos
       ELSE IF ~ValidToDoForm(categories, name, category, due_date, today)
       THEN /\ response' = Resp("update_to_do", FormErrors(due_date, today))
            /\ UNCHANGED to_dos
       ELSE \* committed at line 281; line 282 reads to_do_update.subtasks, which
            \* ToDos does not define: AttributeError after the commit
            /\ to_dos' = CommitUpdate(to_dos, categories, to_do_id, name, category, due_date)
            /\ response' = Resp("update_to_do", "error")
    /\ UNCHANGED <<users, categories, got_dones, session, today, removed, audit>>

\* /delete/<id>: line 295 reads requested_to_do.subtasks before anything is
\* deleted; neither None nor a ToDos row has the attribute.
delete(c, to_do_id) ==
    /\ ~InFlight(c)
    /\ req' = Answered(c)
    /\ response' = Resp("delete", "error")
    /\ UNCHANGED <<users, categories, to_dos, got_dones, session, today, removed, audit>>

\* /delete-with-sub/<id>
delete_to_do(c, to_do_id) ==
    /\ ~InFlight(c)
    /\ req' = Answered(c)
    /\ IF to_do_id \notin DOMAIN to_dos
       THEN \* db.session.delete(None) raises UnmappedInstanceError
            /\ response' = Resp("delete_to_do", "error")
            /\ UNCHANGED <<to_dos, removed>>
       ELSE /\ to_dos' = Delete(to_dos, to_do_id)
            /\ removed' = Removed({to_do_id})
            /\ response' = Resp("delete_to_do", "redirect")
    /\ UNCHANGED <<users, categories, got_dones, session, today, audit>>

\* ------------------------------------------------------------ got-dones
\* Lines 323-327: the GotDones row built from the to-do.
NewGotDone(todos, cats, to_do_id, now) ==
    [name |-> todos[to_do_id].name,
     category |-> StrCategory(cats, todos[to_do_id].parent_id),
     date |-> now]

\* The row archived, the to-do left in place.
MarkDoneCommit_AddOnly(todos, dones, to_do_id, row) ==
    [to_dos |-> todos, got_dones |-> Insert(dones, row)]

\* Lines 329-331: add(new_got_done), delete(requested_to_do) and their one
\* commit, one SQLite transaction.  A DELETE that matches no row (the row was
\* removed since it was read) only warns.
MarkDoneCommit(todos, dones, to_do_id, row) ==
    [to_dos |-> Delete(todos, to_do_id), got_dones |-> Insert(dones, row)]

mark_done(c, to_do_id) ==
    /\ ~InFlight(c)
    /\ req' = Answered(c)
    /\ IF to_do_id \notin DOMAIN to_dos
       THEN \* requested_to_do is None: requested_to_do.name raises AttributeError
            /\ response' = Resp("mark_done", "error")
            /\ UNCHANGED <<to_dos, got_dones, removed>>
       ELSE /\ NextId(got_dones) <= MaxRows
            /\ LET done == MarkDoneCommit(to_dos, got_dones, to_do_id,
                                          NewGotDone(to_dos, categories, to_do_id, today))
               IN /\ got_dones' = done.got_dones
                  /\ to_dos' = done.to_dos
            /\ removed' = Removed({to_do_id})
            /\ response' = Resp("mark_done", "redirect")
    /\ UNCHANGED <<users, categories, session, today, audit>>

\* The rows of got_dones by descending date (the /got-done page).
RECURSIVE got_done_list(_)
got_done_list(rows) ==
    IF DOMAIN rows = {} THEN <<>>
    ELSE LET i == CHOOSE i \in DOMAIN rows :
                     \A j \in DOMAIN rows :
                         \/ rows[j].date < rows[i].date
                         \/ (rows[j].date = rows[i].date /\ i <= j)
         IN <<rows[i]>> \o got_done_list(Delete(rows, i))

\* The url rules of '/clear-got-done' in the order the module registers them
\* (lines 342 and 361); the router serves the first rule that matches.
ClearGotDoneRules == <<"clear_got_done", "clear_categories">>

\* The router serving the rule registered last.
Endpoint_Last(rules) == rules[Len(rules)]

Endpoint(rules) == rules[1]

\* Lines 345-348: every row deleted, a commit after each.
RECURSIVE DeleteAll(_, _)
DeleteAll(table, ids) ==
    IF ids = {} THEN table
    ELSE LET i == CHOOSE i \in ids : \A j \in ids : i <= j
         IN DeleteAll(Delete(table, i), ids \ {i})

\* Deleting a category nulls the parent_id of its to-dos (the relationship
\* to_dos_category has no delete cascade).
Orphan(todos) == [i \in DOMAIN todos |-> [todos[i] EXCEPT !.parent_id = NULL]]

\* GET /clear-got-done
clear_got_done(c) ==
    /\ ~InFlight(c)
    /\ req' = Answered(c)
    /\ IF Endpoint(ClearGotDoneRules) = "clear_got_done"
       THEN /\ got_dones' = DeleteAll(got_dones, DOMAIN got_dones)
            /\ response' = Resp("clear_got_done", "redirect")
            /\ UNCHANGED <<categories, to_dos>>
       ELSE /\ categories' = DeleteAll(categories, DOMAIN categories)
            /\ to_dos' = IF categories = <<>> THEN to_dos ELSE Orphan(to_dos)
            /\ response' = Resp("clear_categories", "redirect")
            /\ UNCHANGED got_dones
    /\ UNCHANGED <<users, session, today, removed, audit>>

Tick ==
    /\ today + 1 \in Days
    /\ today' = today + 1
    /\ response' = Resp("none", "none")
    /\ UNCHANGED <<users, categories, to_dos, got_dones, session, req, audit, removed>>

\* ------------------------------------------------------------ concurrent requests
\* The views below are the same code served to two browsers at once.  A view is
\* cut where it has read the store and at each commit; what it holds between its
\* steps is in req.

\* add_new_category, lines 192-196: the form validates, the row is built.
\* pair records whether the other browser's add_new_category of the same name
\* is in flight too, and whether the name was free at that moment.
add_new_category_begin(c, name) ==
    /\ ~InFlight(c)
    /\ DataRequired(name)
    /\ LET peers == {d \in Clients \ {c} :
                        req[d].op = "add_new_category" /\ req[d].name = name}
           pair == IF peers = {} THEN "alone"
                   ELSE IF CategoryByName(categories, name) = NULL THEN "fresh"
                   ELSE "taken"
       IN req' = [d \in Clients |->
                    IF d = c THEN [op |-> "add_new_category", name |-> name, pair |-> pair]
                    ELSE IF d \in peers THEN [req[d] EXCEPT !.pair = pair]
                    ELSE req[d]]
    /\ response' = Resp("none", "none")
    /\ UNCHANGED <<users, categories, to_dos, got_dones, session, today, audit, removed>>

\* add_new_category, lines 197-203.
add_new_category_commit(c) ==
    /\ req[c].op = "add_new_category"
    /\ categories' = CommitNewCategory(categories, req[c].name)
    /\ response' = IF categories' = categories
                   THEN Resp("add_new_category", "flash_exists")
                   ELSE Resp("add_new_category", "redirect")
    /\ req' = IF req[c].pair = "alone" THEN Answered(c)
              ELSE [req EXCEPT ![c] = [op |-> "done", name |-> req[c].name,
                                       pair |-> req[c].pair, status |-> response'.status]]
    /\ UNCHANGED <<users, to_dos, got_dones, session, today, audit, removed>>

\* mark_done, lines 322-327: the to-do is read and the GotDones row built.
mark_done_get(c, to_do_id) ==
    /\ ~InFlight(c)
    /\ IF to_do_id \notin DOMAIN to_dos
       THEN /\ response' = Resp("mark_done", "error")
            /\ req' = Answered(c)
       ELSE /\ response' = Resp("none", "none")
            /\ req' = [req EXCEPT ![c] =
                         [op |-> "mark_done", to_do_id |-> to_do_id,
                          row |-> NewGotDone(to_dos, categories, to_do_id, today)]]
    /\ UNCHANGED <<users, categories, to_dos, got_dones, session, today, audit, removed>>

\* mark_done, lines 329-332.
mark_done_commit(c) ==
    /\ req[c].op = "mark_done"
    /\ NextId(got_dones) <= MaxRows
    /\ LET done == MarkDoneCommit(to_dos, got_dones, req[c].to_do_id, req[c].row)
       IN /\ got_dones' = done.got_dones
          /\ to_dos' = done.to_dos
    /\ removed' = Removed({req[c].to_do_id})
    /\ response' = Resp("mark_done", "redirect")
    /\ req' = Answered(c)
    /\ UNCHANGED <<users, categories, session, today, audit>>

\* clear_got_done, line 345: the rows to delete are read.
clear_got_done_query(c) ==
    /\ ~InFlight(c)
    /\ Endpoint(ClearGotDoneRules) = "clear_got_done"
    /\ IF got_dones = <<>>
       THEN /\ response' = Resp("clear_got_done", "redirect")
            /\ req' = Answered(c)
       ELSE /\ response' = Resp("none", "none")
            /\ req' = [req EXCEPT ![c] = [op |-> "clear_got_done", ids |-> DOMAIN got_dones]]
    /\ UNCHANGED <<users, categories, to_dos, got_dones, session, today, audit, removed>>

\* clear_got_done, lines 346-349: one pass of the loop, the delete of one row
\* and its commit; the redirect after the last.
clear_got_done_delete(c) ==
    /\ req[c].op = "clear_got_done"
    /\ LET i == CHOOSE i \in req[c].ids : \A j \in req[c].ids : i <= j
       IN /\ got_dones' = Delete(got_dones, i)
          /\ IF req[c].ids = {i}
             THEN /\ response' = Resp("clear_got_done", "redirect")
                  /\ req' = Answered(c)
             ELSE /\ response' = Resp("none", "none")
                  /\ req' = [req EXCEPT ![c].ids = @ \ {i}]
    /\ UNCHANGED <<users, categories, to_dos, session, today, audit, removed>>

\* ------------------------------------------------------------ specifications
\* The to-do forms a browser submits: every name, category and day, and the
\* forms with the name or the date left out.
ToDoForms ==
    [name : ToDoNames, category : CategoryNames, due_date : Days]
    \cup {[name |-> Empty, category |-> "Work", due_date |-> 2],
          [name |-> "a", category |-> "Work", due_date |-> NULL]}

AuthRequest(c) ==
    \/ \E e \in Emails \cup {Empty}, p \in {"pw"} : register(c, e, p, "name")
    \/ \E e \in Emails, p \in Passwords : login(c, e, p)
    \/ logout(c)
    \/ dashboard(c)

LifecycleRequest(c) ==
    \/ \E n \in CategoryNames \cup {Empty} : add_new_category(c, n)
    \/ \E i \in CategoryIds, n \in CategoryNames \cup {Empty} : update_category(c, i, n)
    \/ \E f \in ToDoForms : add_new_to_do(c, f.name, f.category, f.due_date)
    \/ \E i \in Ids, f \in ToDoForms : update_to_do(c, i, f.name, f.category, f.due_date)
    \/ \E i \in Ids : delete(c, i)
    \/ \E i \in Ids : delete_to_do(c, i)
    \/ \E i \in Ids : mark_done(c, i)
    \/ clear_got_done(c)

\* One browser, one request at a time.
Next ==
    \/ LifecycleRequest("c1")
    \/ Tick

Spec == Init /\ [][Next]_vars

\* Two browsers with their sessions, one request at a time, the history kept.
NextFull ==
    \/ \E c \in Clients : AuthRequest(c)
    \/ \E c \in Clients : LifecycleRequest(c)
    \/ Tick

SpecFull == InitAudit /\ [][NextFull]_vars

\* Two browsers, their requests interleaved.
NextConc ==
    \/ \E c \in Clients, n \in CategoryNames : add_new_category_begin(c, n)
    \/ \E c \in Clients : add_new_category_commit(c)
    \/ \E c \in Clients, i \in Ids : mark_done_get(c, i)
    \/ \E c \in Clients : mark_done_commit(c)
    \/ \E c \in Clients : clear_got_done_query(c)
    \/ \E c \in Clients : clear_got_done_delete(c)
    \/ \E c \in Clients, i \in CategoryIds, n \in CategoryNames : update_category(c, i, n)
    \/ \E c \in Clients, k \in CategoryNames : add_new_to_do(c, "a", k, today)
    \/ \E c \in Clients, i \in Ids : delete_to_do(c, i)

SpecConc == Init /\ [][NextConc]_vars

\* ------------------------------------------------------------ properties
Names(cats) == {cats[i].name : i \in DOMAIN cats}

\* C1: a lifecycle request served while no browser holds an authenticated
\* session leaves categories, to_dos and got_dones unchanged and is answered
\* with the redirect to login.
C1_SessionCheck ==
    [][((\A c \in Clients : ~is_authenticated(c)) /\ (\E c \in Clients : LifecycleRequest(c)))
         => (UNCHANGED tables /\ response'.status = "redirect_login")]_vars

\* The step in which browser c's mark_done commits.
CommitsMarkDone(c) == req[c].op = "mark_done" /\ req'[c].op # "mark_done"

\* C2: completion is atomic under interleaving.  A got_dones row appears only
\* in the step that commits a mark_done, that step leaves the row as built and
\* the to-do absent, and a to-do disappears only in such a step or in a
\* delete_to_do: no state shows the archive row beside the to-do, or neither.
C2_CompleteAtomic ==
    [][/\ \A c \in Clients :
             CommitsMarkDone(c) =>
                 /\ got_dones' = Insert(got_dones, req[c].row)
                 /\ req[c].to_do_id \notin DOMAIN to_dos'
       /\ DOMAIN got_dones' \ DOMAIN got_dones # {} => \E c \in Clients : CommitsMarkDone(c)
       /\ \A i \in DOMAIN to_dos \ DOMAIN to_dos' :
             \/ response'.handler = "delete_to_do"
             \/ \E c \in Clients : CommitsMarkDone(c) /\ req[c].to_do_id = i]_vars

\* A mark_done was just committed while another mark_done is in flight.
C2_Witness ==
    /\ response = Resp("mark_done", "redirect")
    /\ got_dones # <<>>
    /\ \E c \in Clients : req[c].op = "mark_done"

\* C3: a request that ends in an error leaves the store as it was.
C3_Rollback == [][response'.status = "error" => UNCHANGED tables]_vars

\* C4: add_new_category with a name some category has is refused as a
\* duplicate and changes nothing, and after every request no two categories
\* share a name.
C4_Duplicate ==
    [][/\ UniqueNames(categories')
       /\ response'.handler = "add_new_category" =>
             \A n \in CategoryNames :
                 (add_new_category("c1", n) /\ n \in Names(categories)) =>
                     /\ UNCHANGED tables
                     /\ response'.status = "flash_exists"]_vars

\* A duplicate was just refused with every name taken.
C4_Witness ==
    /\ response = Resp("add_new_category", "flash_exists")
    /\ Cardinality(DOMAIN categories) = Cardinality(CategoryNames)

\* C5: deleting an existing to-do, by /delete/<id> or /delete-with-sub/<id>,
\* removes its row and nothing else, and archives nothing.
C5_Delete ==
    [][\A i \in DOMAIN to_dos :
          (delete("c1", i) \/ delete_to_do("c1", i)) =>
              /\ to_dos' = Delete(to_dos, i)
              /\ UNCHANGED <<categories, got_dones>>]_vars

\* C6: GET /clear-got-done leaves got_dones empty, so that the /got-done page
\* lists nothing, and leaves to_dos and categories as they were.
C6_Clear ==
    [][clear_got_done("c1") =>
          /\ got_dones' = <<>>
          /\ got_done_list(got_dones') = <<>>
          /\ UNCHANGED <<to_dos, categories>>]_vars

\* /clear-got-done was just served while a to-do and its category exist.
C6_Witness ==
    /\ response.status = "redirect"
    /\ response.handler \in {"clear_got_done", "clear_categories"}
    /\ got_dones = <<>>
    /\ to_dos # <<>>
    /\ categories # <<>>

\* C7: the row mark_done archives carries the to-do's name, the name its
\* category has at that moment and today's date, and no request other than
\* /clear-got-done removes or changes a row of got_dones.
C7_Snapshot ==
    [][/\ response' = Resp("mark_done", "redirect") =>
             \E i \in DOMAIN to_dos :
                 /\ to_dos' = Delete(to_dos, i)
                 /\ got_dones' = Insert(got_dones,
                                        [name |-> to_dos[i].name,
                                         category |-> categories[to_dos[i].parent_id].name,
                                         date |-> today])
       /\ response'.handler \notin {"clear_got_done", "clear_categories"} =>
             \A j \in DOMAIN got_dones :
                 j \in DOMAIN got_dones' /\ got_dones'[j] = got_dones[j]]_vars

\* An archived row whose category name no category has any more: the category
\* was renamed after the completion.
C7_Witness ==
    /\ response = Resp("update_category", "redirect")
    /\ \E j \in DOMAIN got_dones : got_dones[j].category \notin Names(categories)

\* C8: the id of a to-do that was deleted or marked done never names a live
\* to-do again.
C8_Terminal == removed \cap DOMAIN to_dos = {}

\* C9: add_new_to_do refuses a due date before today with date_check's message
\* and adds nothing; with a name, an existing category and a due date of today
\* or later it adds exactly one row, holding these three values.
C9_DueDate ==
    [][response'.handler = "add_new_to_do" =>
          \A f \in ToDoForms :
              add_new_to_do("c1", f.name, f.category, f.due_date) =>
                  /\ (f.due_date \in Days /\ f.due_date < today) =>
                         /\ response'.status = "past_due_date"
                         /\ UNCHANGED tables
                  /\ (/\ f.name # Empty
                      /\ f.category \in Names(categories)
                      /\ f.due_date \in Days /\ f.due_date >= today) =>
                         /\ response'.status = "redirect"
                         /\ \E i \in Ids \ DOMAIN to_dos :
                               /\ DOMAIN to_dos' = DOMAIN to_dos \cup {i}
                               /\ to_dos'[i].name = f.name
                               /\ categories[to_dos'[i].parent_id].name = f.category
                               /\ to_dos'[i].due_date = f.due_date
                               /\ \A j \in DOMAIN to_dos : to_dos'[j] = to_dos[j]
                         /\ UNCHANGED <<categories, got_dones>>]_vars

\* On the second day a to-do due on day 1 was just refused, beside a to-do that
\* was accepted with that due date on day 1.
C9_Witness ==
    /\ response = Resp("add_new_to_do", "past_due_date")
    /\ today = 2
    /\ \E i \in DOMAIN to_dos : to_dos[i].due_date = 1

\* C10: of two add_new_category requests with one free name in flight together,
\* exactly one adds the row and the other is told the category exists; no two
\* categories ever share a name.
C10_Concurrent ==
    /\ \A i, j \in DOMAIN categories : categories[i].name = categories[j].name => i = j
    /\ \A c, d \in Clients :
          (/\ c # d
           /\ req[c].op = "done" /\ req[d].op = "done"
           /\ req[c].name = req[d].name
           /\ req[c].pair = "fresh" /\ req[d].pair = "fresh")
          => {req[c].status, req[d].status} = {"redirect", "flash_exists"}

\* Both browsers were answered for the same free name, sent while the other's
\* request was in flight.
C10_Witness ==
    /\ req["c1"].op = "done" /\ req["c2"].op = "done"
    /\ req["c1"].name = req["c2"].name
    /\ req["c1"].pair = "fresh" /\ req["c2"].pair = "fresh"
====
